---- MODULE Spec2Model ----
(***************************************************************************)
(* screenshot-lib (src/screenshot-lib/src/lib.rs): an X11 client that      *)
(* captures the root window through MIT-SHM.                               *)
(*                                                                         *)
(* The client is one thread.  Every `?` of the source is a step that       *)
(* either goes on or returns the error; an error return of                 *)
(* ScreenInfo::new / single_capture leaves the scope, which drops the      *)
(* locals (the mapping, the connection).  The X server is the environment: *)
(* it owns the screen contents and the registry of attached segments, it   *)
(* serves the requests of a connection in the order they were written,     *)
(* and it frees the segments of a connection that is closed.               *)
(*                                                                         *)
(* Two connections are modelled: "S", the one a ScreenInfo owns, and "T",  *)
(* the one a single_capture call opens and closes.                         *)
(***************************************************************************)
EXTENDS Integers, Sequences, FiniteSets, TLC

\* ---------------------------------------------------------------- bounds
\* Largest screen geometry the server reports (pixels).
MaxW == 2
MaxH == 2
\* Largest MIT-SHM version numbers the server reports.
MaxMajor == 2
MaxMinor == 3
\* Pixel colours 0..MaxColour (one intensity per pixel).
MaxColour == 1
\* Requests one connection carries before the caller stops using it.
MaxReqs == 5
\* Screen updates and events of other kinds the server produces, together.
MaxEvents == 2

\* ------------------------------------------------------- program constants
\* let bpp = 4usize;
bpp == 4

Slots == {"S", "T"}

VARIABLES
    scrW, scrH,   \* the display's geometry (setup().roots[screen_num])
    screen,       \* the display's contents: one colour per pixel, row-major
    segs,         \* the server's registry: the attached segments
    open,         \* open[s]: connection s is open
    out,          \* out[s]: requests written by the client, not yet flushed
    log,          \* log[s]: requests the server has received on the open connection s
    mmap,         \* mmap[s]: the mapping made on connection s (MmapMut)
    si,           \* the ScreenInfo object the caller holds
    shot,         \* the MmapMut the caller got from single_capture
    op, pc,       \* the call in progress and its position
    loc,          \* the locals of the call in progress
    last,         \* what the last call returned
    dmg,          \* the change-tracking loop: tracker, server-side damage, events
    eq            \* what the caller saw of single_capture and of new; capture; cleanup

vars == <<scrW, scrH, screen, segs, open, out, log, mmap, si, shot, op, pc, loc, last, dmg, eq>>

\* ---------------------------------------------------------------- helpers
Zeros(n) == [i \in 1..n |-> 0]

NoMap == [held |-> FALSE, bytes |-> <<>>]

\* No capture has succeeded yet.
NoCap == [has |-> FALSE, frame |-> <<>>, img |-> <<>>]

\* width, height, shmseg are the fields of the struct (its mmap and conn are
\* mmap["S"] and connection "S"); attached, cleaned and cap are history: the
\* server accepted the attach, cleanup has returned Ok, and the screen and
\* the buffer at the last capture that returned Ok.
NoSi == [live |-> FALSE, width |-> 0, height |-> 0, shmseg |-> 0,
         attached |-> FALSE, cleaned |-> FALSE, cap |-> NoCap]

\* w, h, ver, file, shmseg are the locals of ScreenInfo::new and
\* single_capture (major = -1: no reply yet); attached, served, frame,
\* before are history: the server accepted the attach, it has written the
\* image, the screen it wrote, and the buffer as capture found it; so are n0
\* and cleaned0: how many requests the connection had carried, and whether
\* cleanup had returned Ok, when the call began.
NoLoc == [w |-> 0, h |-> 0, major |-> -1, minor |-> -1,
          file |-> FALSE, fileLen |-> 0, shmseg |-> 0,
          attached |-> FALSE, served |-> FALSE, frame |-> <<>>, before |-> <<>>,
          n0 |-> 0, cleaned0 |-> FALSE]

NoLast == [op |-> "none", res |-> "none", major |-> -1, minor |-> -1,
           attached |-> FALSE, served |-> FALSE, frame |-> <<>>, before |-> <<>>, log |-> <<>>,
           prev |-> NoCap, sent |-> <<>>, cleaned0 |-> FALSE]

\* The connection a call works on: ScreenInfo's own, or single_capture's local.
Cur == IF op = "single_capture" THEN "T" ELSE "S"

\* ------------------------------------------------------- pure computations
\* A version check that looks at the major version only.
has_attach_fd_major(major, minor) == major >= 1

\* A version check that is off by one in the minor version.
has_attach_fd_strict(major, minor) == major > 1 \/ (major = 1 /\ minor > 2)

\* ver.major_version > 1 || (ver.major_version == 1 && ver.minor_version >= 2)
has_attach_fd(major, minor) == major > 1 \/ (major = 1 /\ minor >= 2)

\* let stride = (w as usize) * bpp;
stride(w) == w * bpp

\* A buffer size that forgets the bytes per pixel.
buf_size_pixels(w, h) == w * h

\* let buf_size: usize = stride * (h as usize);
buf_size(w, h) == stride(w) * h

\* A request for the first row of the screen only.
GetImageReqFirstRow(width, height, shmseg) ==
    [name |-> "GetImage", x |-> 0, y |-> 0, width |-> width, height |-> 1,
     plane_mask |-> "all", format |-> "Z_PIXMAP", shmseg |-> shmseg, offset |-> 0]

\* A request for one column more than the buffer holds.
GetImageReqTooWide(width, height, shmseg) ==
    [name |-> "GetImage", x |-> 0, y |-> 0, width |-> width + 1, height |-> height,
     plane_mask |-> "all", format |-> "Z_PIXMAP", shmseg |-> shmseg, offset |-> 0]

\* The request xshm::get_image(conn, root, 0, 0, width, height, !0, Z_PIXMAP,
\* shmseg, 0) puts on the wire.
GetImageReq(width, height, shmseg) ==
    [name |-> "GetImage", x |-> 0, y |-> 0, width |-> width, height |-> height,
     plane_mask |-> "all", format |-> "Z_PIXMAP", shmseg |-> shmseg, offset |-> 0]

\* xshm::attach_fd(conn, shmseg, file, false): the descriptor of a file of
\* `size` bytes, to be registered as `shmseg`.
AttachFdReq(shmseg, size) ==
    [name |-> "AttachFd", shmseg |-> shmseg, size |-> size, read_only |-> FALSE]

\* xshm::detach(conn, shmseg)
DetachReq(shmseg) == [name |-> "Detach", shmseg |-> shmseg]

QueryVersionReq == [name |-> "QueryVersion"]

\* conn.generate_id(): the first identifier of the connection's own range.
FirstId(s) == IF s = "S" THEN 1 ELSE 2

\* ----------------------------------------------------------- the X server
\* The bytes of one pixel in the 32-bit packed format: B, G, R, pad.
PixelBytes(c) == <<c, c, c, 0>>

\* The rectangle (x, y, w, h) of a screen `sw` pixels wide, as the server
\* packs it: row-major, 4 bytes per pixel, no padding between rows.
ImageBytes(scr, sw, x, y, w, h) ==
    [i \in 1..(w * h * 4) |->
        LET k == (i - 1) \div 4
            r == k \div w
            c == k % w
        IN  PixelBytes(scr[(y + r) * sw + (x + c) + 1])[((i - 1) % 4) + 1]]

\* A write that adds the image to what the buffer held instead of replacing it.
WriteAtBlend(bytes, off, img) ==
    [i \in 1..Len(bytes) |->
        IF i > off /\ i <= off + Len(img) THEN bytes[i] + img[i - off] ELSE bytes[i]]

\* bytes with img written at offset off.
WriteAt(bytes, off, img) ==
    [i \in 1..Len(bytes) |->
        IF i > off /\ i <= off + Len(img) THEN img[i - off] ELSE bytes[i]]

Registered(reg, s, id) == \E e \in reg : e.conn = s /\ e.id = id

SegSize(reg, s, id) == (CHOOSE e \in reg : e.conn = s /\ e.id = id).size

\* What the server answers to a GetImage request on connection s: an X error,
\* or "ok" after writing the image into the segment.
GetImageResult(reg, s, req) ==
    IF ~Registered(reg, s, req.shmseg) THEN "BadShmSeg"
    ELSE IF req.width < 1 \/ req.height < 1 THEN "BadValue"
    ELSE IF req.x + req.width > scrW \/ req.y + req.height > scrH THEN "BadMatch"
    ELSE IF req.offset + req.width * req.height * 4 > SegSize(reg, s, req.shmseg)
      THEN "BadAccess"
    ELSE "ok"

\* The server's registry after a request without reply; `accept` is whether
\* the server accepts an attach (it may refuse: the descriptor cannot be
\* mapped, the identifier is in use).  An error goes back as an error event
\* the client never reads.
ServeVoid(reg, s, req, accept) ==
    IF req.name = "AttachFd"
      THEN IF accept /\ ~Registered(reg, s, req.shmseg)
             THEN reg \cup {[conn |-> s, id |-> req.shmseg, size |-> req.size]}
             ELSE reg
    ELSE IF req.name = "Detach"
      THEN {e \in reg : ~(e.conn = s /\ e.id = req.shmseg)}
    ELSE reg

RECURSIVE ServeAll(_, _, _, _)
ServeAll(reg, s, reqs, accept) ==
    IF reqs = <<>> THEN reg
    ELSE ServeAll(ServeVoid(reg, s, Head(reqs), accept), s, Tail(reqs), accept)

\* The server frees what a connection registered when the connection closes.
CloseDown(reg, s) == {e \in reg : e.conn # s}

\* ------------------------------------------------- change-tracking: helpers
\* A rectangle (x, y, width, height); NoRect stands for "none".
NoRect == [x |-> 0, y |-> 0, w |-> 0, h |-> 0]

\* The rectangles of the captured surface.
Rects ==
    {r \in [x : 0..(scrW - 1), y : 0..(scrH - 1), w : 1..scrW, h : 1..scrH] :
        r.x + r.w <= scrW /\ r.y + r.h <= scrH}

\* The pixels of a rectangle.
Cells(r) == {<<i, j>> : i \in r.x..(r.x + r.w - 1), j \in r.y..(r.y + r.h - 1)}

\* The smallest rectangle around a non-empty set of pixels.
BBox(cs) ==
    LET x0 == CHOOSE i \in {c[1] : c \in cs} : \A c \in cs : i <= c[1]
        x1 == CHOOSE i \in {c[1] : c \in cs} : \A c \in cs : i >= c[1]
        y0 == CHOOSE j \in {c[2] : c \in cs} : \A c \in cs : j <= c[2]
        y1 == CHOOSE j \in {c[2] : c \in cs} : \A c \in cs : j >= c[2]
    IN  [x |-> x0, y |-> y0, w |-> x1 - x0 + 1, h |-> y1 - y0 + 1]

\* An event in the stream: a damage notification with its rectangle (src is
\* the update that caused it), or an event of another kind.
DamageNotify(rect, src) == [kind |-> "damage", rect |-> rect, src |-> src]

OtherKind == [kind |-> "other", rect |-> NoRect, src |-> NoRect]

NoRet == [has |-> FALSE, kind |-> "none", rect |-> NoRect, src |-> NoRect]

\* No tracker registered.  region is the server's accumulated damage, queue
\* the events delivered and not yet read, ret what next_change returned last;
\* nUpd, nOther and nRet count updates, other events and returns, dirty says
\* that the screen was updated after the last return.
NoDmg == [state |-> "Uninitialized", region |-> {}, queue |-> <<>>,
          calling |-> FALSE, res |-> "none", ret |-> NoRet,
          nUpd |-> 0, nOther |-> 0, nRet |-> 0, dirty |-> FALSE]

\* ------------------------------------------------- what the caller has seen
\* Of one run (single_capture, or new; capture; cleanup): the result, what
\* the server did (version, answer to the attach, the frame it served),
\* whether the transport or the OS failed, the requests the server received,
\* the buffer the caller holds, and whether the segment is still registered.
NoRun == [done |-> FALSE, ok |-> FALSE, env |-> FALSE, major |-> -1, minor |-> -1,
          attached |-> FALSE, frame |-> <<>>, reqs |-> <<>>, bytes |-> <<>>,
          registered |-> FALSE]

NoEq == [calls |-> 0, t |-> NoRun, s |-> NoRun]

\* ------------------------------------------------------------------- Init
Colours == 0..MaxColour

Fill(c) == [i \in 1..(scrW * scrH) |-> c]

Init ==
    /\ scrW \in 1..MaxW
    /\ scrH \in 1..MaxH
    /\ screen = [i \in 1..(scrW * scrH) |-> 0]
    /\ segs = {}
    /\ open = [s \in Slots |-> FALSE]
    /\ out = [s \in Slots |-> <<>>]
    /\ log = [s \in Slots |-> <<>>]
    /\ mmap = [s \in Slots |-> NoMap]
    /\ si = NoSi
    /\ shot = NoMap
    /\ op = "none"
    /\ pc = "idle"
    /\ loc = NoLoc
    /\ last = NoLast
    /\ dmg = NoDmg
    /\ eq = NoEq

\* ------------------------------------------------------- leaving a call
\* What `last` records of the call that returns with result res.
\* log is what the server received on the connection the call closed, sent
\* the requests the call wrote (`written` is all the connection carried).
Outcome(res, loc1, closed, written) ==
    [op |-> op, res |-> res, major |-> loc1.major, minor |-> loc1.minor,
     attached |-> loc1.attached, served |-> loc1.served, frame |-> loc1.frame, before |-> loc1.before,
     log |-> closed, prev |-> si.cap,
     sent |-> SubSeq(written, loc1.n0 + 1, Len(written)), cleaned0 |-> loc1.cleaned0]

\* A scope exit that unmaps the buffer and leaves the connection open (the
\* connection kept alive somewhere else).
ScopeExitKeepsConn(res, reg1, out1, log1, mmap1) ==
    /\ segs' = reg1
    /\ open' = open
    /\ out' = out1
    /\ log' = [log1 EXCEPT ![Cur] = <<>>]
    /\ mmap' = [mmap1 EXCEPT ![Cur] = NoMap]
    /\ UNCHANGED <<si, shot>>

\* An error return of ScreenInfo::new or single_capture (`?`, or the
\* `return Err(..)` of the version check): the scope ends, its locals are
\* dropped: the mapping is unmapped, the connection is closed, what was
\* written and not flushed is lost.
ScopeExit(res, reg1, out1, log1, mmap1) ==
    /\ segs' = CloseDown(reg1, Cur)
    /\ open' = [open EXCEPT ![Cur] = FALSE]
    /\ out' = [out1 EXCEPT ![Cur] = <<>>]
    /\ log' = [log1 EXCEPT ![Cur] = <<>>]
    /\ mmap' = [mmap1 EXCEPT ![Cur] = NoMap]
    /\ UNCHANGED <<si, shot>>

\* A return of capture or cleanup, with either result: `self` lives on.
MethodReturn(res, reg1, out1, log1, mmap1, loc1) ==
    /\ segs' = reg1
    /\ out' = out1
    /\ log' = log1
    /\ mmap' = mmap1
    /\ si' = IF res # "ok" THEN si
             ELSE IF op = "cleanup" THEN [si EXCEPT !.cleaned = TRUE]
             ELSE [si EXCEPT !.cap = [has |-> TRUE, frame |-> loc1.frame,
                                      img |-> mmap1["S"].bytes]]
    /\ UNCHANGED <<open, shot>>

\* Ok(Self { screen, height: h, width: w, shmseg, mmap, conn })
NewReturn(reg1, out1, log1, mmap1, loc1) ==
    /\ segs' = reg1
    /\ out' = out1
    /\ log' = log1
    /\ mmap' = mmap1
    /\ si' = [live |-> TRUE, width |-> loc1.w, height |-> loc1.h,
              shmseg |-> loc1.shmseg, attached |-> loc1.attached,
              cleaned |-> FALSE, cap |-> NoCap]
    /\ UNCHANGED <<open, shot>>

\* return Ok(mmap): the mapping moves to the caller (who drops the one it
\* held); the connection, a local, is closed.
SingleCaptureReturn(reg1, out1, log1, mmap1) ==
    /\ segs' = CloseDown(reg1, "T")
    /\ open' = [open EXCEPT !["T"] = FALSE]
    /\ out' = [out1 EXCEPT !["T"] = <<>>]
    /\ log' = [log1 EXCEPT !["T"] = <<>>]
    /\ shot' = mmap1["T"]
    /\ mmap' = [mmap1 EXCEPT !["T"] = NoMap]
    /\ UNCHANGED si

ReturnWith(res, reg1, out1, log1, mmap1, loc1) ==
    /\ IF op \in {"capture", "cleanup"} THEN MethodReturn(res, reg1, out1, log1, mmap1, loc1)
       ELSE IF res # "ok" THEN ScopeExit(res, reg1, out1, log1, mmap1)
       ELSE IF op = "new" THEN NewReturn(reg1, out1, log1, mmap1, loc1)
       ELSE SingleCaptureReturn(reg1, out1, log1, mmap1)
    /\ pc' = "idle"
    /\ op' = "none"
    /\ loc' = NoLoc
    /\ last' = Outcome(res, loc1,
                        IF op \in {"capture", "cleanup"} \/ (op = "new" /\ res = "ok")
                          THEN <<>> ELSE log1[Cur],
                        log1[Cur] \o out1[Cur])

Return(res, reg1, out1, log1, mmap1) == ReturnWith(res, reg1, out1, log1, mmap1, loc)

\* The step went well: on to the next one.
Goto(next) == pc' = next /\ UNCHANGED <<op, last>>

\* ------------------------------------------------------------ the caller
\* ScreenInfo::new(dpy_name) is called.
CallNew ==
    /\ pc = "idle" /\ ~si.live
    /\ op' = "new" /\ pc' = "connect" /\ last' = NoLast
    /\ UNCHANGED <<dmg, eq, scrW, scrH, screen, segs, open, out, log, mmap, si, shot, loc>>

\* single_capture(dpy_name) is called.  (The caller works with one connection
\* at a time: the calls share no state, every one opens its own connection.)
CallSingleCapture ==
    /\ pc = "idle" /\ ~si.live
    /\ op' = "single_capture" /\ pc' = "connect" /\ last' = NoLast
    /\ UNCHANGED <<dmg, eq, scrW, scrH, screen, segs, open, out, log, mmap, si, shot, loc>>

\* screen_info.capture() is called.
CallCapture ==
    /\ pc = "idle" /\ si.live
    /\ Len(log["S"]) + Len(out["S"]) < MaxReqs
    /\ op' = "capture" /\ pc' = "get_image" /\ last' = NoLast
    /\ loc' = [NoLoc EXCEPT !.before = mmap["S"].bytes,
                            !.n0 = Len(log["S"]) + Len(out["S"]),
                            !.cleaned0 = si.cleaned]
    /\ UNCHANGED <<dmg, eq, scrW, scrH, screen, segs, open, out, log, mmap, si, shot>>

\* screen_info.cleanup() is called.
CallCleanup ==
    /\ pc = "idle" /\ si.live
    /\ Len(log["S"]) + Len(out["S"]) < MaxReqs
    /\ op' = "cleanup" /\ pc' = "detach" /\ last' = NoLast
    /\ loc' = [NoLoc EXCEPT !.n0 = Len(log["S"]) + Len(out["S"]),
                            !.cleaned0 = si.cleaned]
    /\ UNCHANGED <<dmg, eq, scrW, scrH, screen, segs, open, out, log, mmap, si, shot>>

\* A drop that unmaps the buffer and leaves the connection open.
DropScreenInfoKeepsConn ==
    /\ pc = "idle" /\ si.live
    /\ si' = NoSi
    /\ mmap' = [mmap EXCEPT !["S"] = NoMap]
    /\ log' = [log EXCEPT !["S"] = <<>>]
    /\ last' = [NoLast EXCEPT !.op = "drop", !.log = log["S"]]
    /\ UNCHANGED <<dmg, eq, scrW, scrH, screen, segs, open, out, shot, op, pc, loc>>

\* The caller drops its ScreenInfo: the fields are dropped, the mapping is
\* unmapped and the connection closed.
DropScreenInfo ==
    /\ pc = "idle" /\ si.live
    /\ si' = NoSi
    /\ mmap' = [mmap EXCEPT !["S"] = NoMap]
    /\ open' = [open EXCEPT !["S"] = FALSE]
    /\ out' = [out EXCEPT !["S"] = <<>>]
    /\ segs' = CloseDown(segs, "S")
    /\ log' = [log EXCEPT !["S"] = <<>>]
    /\ last' = [NoLast EXCEPT !.op = "drop", !.log = log["S"]]
    /\ UNCHANGED <<dmg, eq, scrW, scrH, screen, shot, op, pc, loc>>

\* The caller drops the MmapMut single_capture returned.
DropShot ==
    /\ pc = "idle" /\ shot.held
    /\ shot' = NoMap
    /\ UNCHANGED <<dmg, eq, scrW, scrH, screen, segs, open, out, log, mmap, si, op, pc, loc, last>>

\* Something repaints the screen.
ScreenChange ==
    /\ \E c \in Colours : Fill(c) # screen /\ screen' = Fill(c)
    /\ UNCHANGED <<dmg, eq, scrW, scrH, segs, open, out, log, mmap, si, shot, op, pc, loc, last>>

\* ------------------------------------------- ScreenInfo::new, single_capture
\* x11rb::connect(dpy_name).context("error X11 (DISPLAY)")?, and the geometry
\* of the screen read from the setup.
Connect ==
    /\ pc = "connect"
    /\ \/ Return("err_connect", segs, out, log, mmap)
       \/ /\ open' = [open EXCEPT ![Cur] = TRUE]
          /\ out' = [out EXCEPT ![Cur] = <<>>]
          /\ log' = [log EXCEPT ![Cur] = <<>>]
          /\ loc' = [loc EXCEPT !.w = scrW, !.h = scrH]
          /\ Goto("query_version")
          /\ UNCHANGED <<segs, mmap, si, shot>>
    /\ UNCHANGED <<dmg, eq, scrW, scrH, screen>>

\* xshm::query_version(&conn)?.reply()?
QueryVersion ==
    /\ pc = "query_version"
    /\ \/ Return("err_query_version", segs, out, log, mmap)
       \/ \E major \in 0..MaxMajor, minor \in 0..MaxMinor :
            /\ log' = [log EXCEPT ![Cur] = Append(@, QueryVersionReq)]
            /\ loc' = [loc EXCEPT !.major = major, !.minor = minor]
            /\ Goto("check_version")
            /\ UNCHANGED <<segs, open, out, mmap, si, shot>>
    /\ UNCHANGED <<dmg, eq, scrW, scrH, screen>>

\* if !has_attach_fd { return Err(anyhow!("MIT-SHM version 1.2 or higher is required")); }
CheckVersion ==
    /\ pc = "check_version"
    /\ IF ~has_attach_fd(loc.major, loc.minor)
         THEN Return("err_version", segs, out, log, mmap)
         ELSE Goto("tempfile") /\ UNCHANGED <<segs, open, out, log, mmap, si, shot, loc>>
    /\ UNCHANGED <<dmg, eq, scrW, scrH, screen>>

\* tempfile().context("failed to create temporary file")?
Tempfile ==
    /\ pc = "tempfile"
    /\ \/ Return("err_tempfile", segs, out, log, mmap)
       \/ /\ loc' = [loc EXCEPT !.file = TRUE, !.fileLen = 0]
          /\ Goto("set_len")
          /\ UNCHANGED <<segs, open, out, log, mmap, si, shot>>
    /\ UNCHANGED <<dmg, eq, scrW, scrH, screen>>

\* file.set_len(buf_size as u64).context(..)?
SetLen ==
    /\ pc = "set_len"
    /\ \/ Return("err_set_len", segs, out, log, mmap)
       \/ /\ loc' = [loc EXCEPT !.fileLen = buf_size(loc.w, loc.h)]
          /\ Goto("mmap")
          /\ UNCHANGED <<segs, open, out, log, mmap, si, shot>>
    /\ UNCHANGED <<dmg, eq, scrW, scrH, screen>>

\* MmapMut::map_mut(&file).context(..)?: the whole file, zero-filled.
Mmap ==
    /\ pc = "mmap"
    /\ \/ Return("err_mmap", segs, out, log, mmap)
       \/ /\ mmap' = [mmap EXCEPT ![Cur] = [held |-> TRUE, bytes |-> Zeros(loc.fileLen)]]
          /\ Goto("generate_id")
          /\ UNCHANGED <<segs, open, out, log, si, shot, loc>>
    /\ UNCHANGED <<dmg, eq, scrW, scrH, screen>>

\* conn.generate_id()?
GenerateId ==
    /\ pc = "generate_id"
    /\ \/ Return("err_generate_id", segs, out, log, mmap)
       \/ /\ loc' = [loc EXCEPT !.shmseg = FirstId(Cur)]
          /\ Goto("attach_fd")
          /\ UNCHANGED <<segs, open, out, log, mmap, si, shot>>
    /\ UNCHANGED <<dmg, eq, scrW, scrH, screen>>

\* xshm::attach_fd(&conn, shmseg, file, false)?: the request is written; the
\* cookie is dropped, so what the server answers is never looked at.
AttachFd ==
    /\ pc = "attach_fd"
    /\ \/ Return("err_attach_send", segs, out, log, mmap)
       \/ /\ out' = [out EXCEPT ![Cur] = Append(@, AttachFdReq(loc.shmseg, loc.fileLen))]
          /\ loc' = [loc EXCEPT !.file = FALSE]
          /\ Goto("flush_attach")
          /\ UNCHANGED <<segs, open, log, mmap, si, shot>>
    /\ UNCHANGED <<dmg, eq, scrW, scrH, screen>>

\* conn.flush()?: what was written goes to the server, which serves it in
\* order.  When the flush fails the requests may or may not have left.
\* After the attach, ScreenInfo::new returns Ok(Self) and single_capture goes
\* on to the image; after the image (capture) and after the detach (cleanup,
\* single_capture) the call returns Ok.
Flush ==
    /\ pc \in {"flush_attach", "flush_capture", "flush_detach"}
    /\ \E delivered \in BOOLEAN, ok \in BOOLEAN, accept \in BOOLEAN :
         /\ ok => delivered
         /\ LET reg1 == IF delivered THEN ServeAll(segs, Cur, out[Cur], accept) ELSE segs
                out1 == IF delivered THEN [out EXCEPT ![Cur] = <<>>] ELSE out
                log1 == IF delivered THEN [log EXCEPT ![Cur] = @ \o out[Cur]] ELSE log
                loc1 == IF pc = "flush_attach"
                          THEN [loc EXCEPT !.attached = Registered(reg1, Cur, loc.shmseg)]
                          ELSE loc
            IN  IF ~ok THEN ReturnWith("err_flush", reg1, out1, log1, mmap, loc1)
                ELSE IF pc = "flush_attach" /\ op = "single_capture"
                  THEN /\ segs' = reg1 /\ out' = out1 /\ log' = log1 /\ loc' = loc1
                       /\ Goto("get_image")
                       /\ UNCHANGED <<open, mmap, si, shot>>
                ELSE ReturnWith("ok", reg1, out1, log1, mmap, loc1)
    /\ UNCHANGED <<dmg, eq, scrW, scrH, screen>>

\* A capture that asks for the first row only.
CurGetImageReqCaptureRow ==
    IF op = "capture" THEN GetImageReqFirstRow(si.width, si.height, si.shmseg)
    ELSE GetImageReq(loc.w, loc.h, loc.shmseg)

\* The request of the call in progress: capture asks for self.width x
\* self.height into self.shmseg, single_capture for w x h into shmseg.
CurGetImageReq ==
    IF op = "capture" THEN GetImageReq(si.width, si.height, si.shmseg)
    ELSE GetImageReq(loc.w, loc.h, loc.shmseg)

\* An image request that is written and not waited for (no .reply()).
GetImageNoWait ==
    /\ pc = "get_image"
    /\ out' = [out EXCEPT ![Cur] = Append(@, CurGetImageReq)]
    /\ Goto(IF op = "capture" THEN "flush_capture" ELSE "detach")
    /\ UNCHANGED <<dmg, eq, scrW, scrH, screen, segs, open, log, mmap, si, shot, loc>>

\* xshm::get_image(..)?.reply()?: the request is written (or that fails);
\* reply() flushes what is pending and blocks until the server has answered.
\* The server answers with an X error, or writes the image into the segment
\* and replies; the reply may still be lost with the connection.
GetImage ==
    /\ pc = "get_image"
    /\ \/ Return("err_get_image_send", segs, out, log, mmap)
       \/ \E accept \in BOOLEAN, lost \in BOOLEAN :
            LET req == CurGetImageReq
                reg1 == ServeAll(segs, Cur, out[Cur], accept)
                out1 == [out EXCEPT ![Cur] = <<>>]
                log1 == [log EXCEPT ![Cur] = (@ \o out[Cur]) \o <<req>>]
                r == GetImageResult(reg1, Cur, req)
                img == ImageBytes(screen, scrW, req.x, req.y, req.width, req.height)
                mmap1 == IF r = "ok"
                           THEN [mmap EXCEPT ![Cur].bytes = WriteAt(@, req.offset, img)]
                           ELSE mmap
                loc1 == IF r = "ok"
                          THEN [loc EXCEPT !.served = TRUE, !.frame = screen]
                          ELSE loc
            IN  IF lost THEN ReturnWith("err_get_image_reply", reg1, out1, log1, mmap1, loc1)
                ELSE IF r # "ok" THEN Return("err_protocol", reg1, out1, log1, mmap)
                ELSE /\ segs' = reg1 /\ out' = out1 /\ log' = log1 /\ mmap' = mmap1
                     /\ loc' = loc1
                     /\ Goto(IF op = "capture" THEN "flush_capture" ELSE "detach")
                     /\ UNCHANGED <<open, si, shot>>
    /\ UNCHANGED <<dmg, eq, scrW, scrH, screen>>

\* xshm::detach(&conn, shmseg)?: the request is written, its cookie dropped.
Detach ==
    /\ pc = "detach"
    /\ \/ Return("err_detach_send", segs, out, log, mmap)
       \/ /\ out' = [out EXCEPT ![Cur] =
                        Append(@, DetachReq(IF op = "cleanup" THEN si.shmseg ELSE loc.shmseg))]
          /\ Goto("flush_detach")
          /\ UNCHANGED <<segs, open, log, mmap, si, shot, loc>>
    /\ UNCHANGED <<dmg, eq, scrW, scrH, screen>>

Next ==
    \/ CallNew \/ CallSingleCapture \/ CallCapture \/ CallCleanup
    \/ DropScreenInfo \/ DropShot \/ ScreenChange
    \/ Connect \/ QueryVersion \/ CheckVersion \/ Tempfile \/ SetLen \/ Mmap
    \/ GenerateId \/ AttachFd \/ Flush \/ GetImage \/ Detach

Spec == Init /\ [][Next]_vars

\* ----------------------------------------------------- change-tracking loop
\* The capture session's variables, which the change-tracking loop leaves alone.
session == <<scrW, scrH, screen, segs, open, out, log, mmap, si, shot, op, pc, loc, last, eq>>

\* register_damage(session, surface): Uninitialized -> Active, a tracker at
\* "delta rectangles" granularity with nothing accumulated; or ProtocolError.
\* After ConnectionLost the caller may register a fresh tracker.
RegisterDamage ==
    /\ dmg.state \in {"Uninitialized", "Lost"}
    /\ \/ dmg' = [dmg EXCEPT !.state = "Active", !.region = {}, !.queue = <<>>,
                              !.res = "ok", !.dirty = FALSE]
       \/ dmg.res # "ProtocolError" /\ dmg' = [dmg EXCEPT !.res = "ProtocolError"]
    /\ UNCHANGED session

\* Something draws into rectangle r of the surface.  The server adds r to the
\* tracker's damage and reports what is newly damaged, the delta, in one
\* notification; an update inside the damage already accumulated reports nothing.
ScreenUpdate ==
    /\ dmg.state = "Active" /\ dmg.nUpd + dmg.nOther < MaxEvents
    /\ \E r \in Rects :
         LET delta == Cells(r) \ dmg.region
         IN  dmg' = [dmg EXCEPT !.region = @ \cup Cells(r),
                                !.queue = IF delta = {} THEN @
                                          ELSE Append(@, DamageNotify(BBox(delta), r)),
                                !.nUpd = @ + 1, !.dirty = TRUE]
    /\ UNCHANGED session

\* The server delivers an event that is not a damage notification.
OtherEvent ==
    /\ dmg.state = "Active" /\ dmg.nUpd + dmg.nOther < MaxEvents
    /\ dmg' = [dmg EXCEPT !.queue = Append(@, OtherKind), !.nOther = @ + 1]
    /\ UNCHANGED session

\* next_change(tracker) is called.
CallNextChange ==
    /\ dmg.state = "Active" /\ ~dmg.calling
    /\ dmg' = [dmg EXCEPT !.calling = TRUE, !.res = "none"]
    /\ UNCHANGED session

\* A next_change that returns the rectangle and leaves the damage accumulated.
NextChangeNoAck ==
    /\ dmg.calling /\ dmg.queue # <<>>
    /\ LET e == Head(dmg.queue)
       IN  IF e.kind = "damage"
             THEN dmg' = [dmg EXCEPT !.queue = Tail(@), !.calling = FALSE, !.res = "ok",
                                     !.ret = [has |-> TRUE, kind |-> e.kind,
                                              rect |-> e.rect, src |-> e.src],
                                     !.nRet = @ + 1, !.dirty = FALSE]
             ELSE dmg' = [dmg EXCEPT !.queue = Tail(@)]
    /\ UNCHANGED session

\* One turn of the loop in next_change: it blocks until an event is there
\* (no step while the queue is empty); a damage notification has its
\* rectangle extracted, the reported area is subtracted from the server's
\* accumulated damage, and the rectangle is returned; an event of another
\* kind is ignored and the loop goes on.
NextChange ==
    /\ dmg.calling /\ dmg.queue # <<>>
    /\ LET e == Head(dmg.queue)
       IN  IF e.kind = "damage"
             THEN dmg' = [dmg EXCEPT !.queue = Tail(@), !.calling = FALSE, !.res = "ok",
                                     !.region = @ \ Cells(e.rect),
                                     !.ret = [has |-> TRUE, kind |-> e.kind,
                                              rect |-> e.rect, src |-> e.src],
                                     !.nRet = @ + 1, !.dirty = FALSE]
             ELSE dmg' = [dmg EXCEPT !.queue = Tail(@)]
    /\ UNCHANGED session

\* A transport error while waiting for an event: fatal to the loop, not
\* retried, surfaced as ConnectionLost; the tracker and its events are gone.
ConnectionLost ==
    /\ dmg.calling
    /\ dmg' = [dmg EXCEPT !.state = "Lost", !.calling = FALSE, !.res = "ConnectionLost",
                          !.region = {}, !.queue = <<>>]
    /\ UNCHANGED session

NextDamage ==
    \/ RegisterDamage \/ ScreenUpdate \/ OtherEvent
    \/ CallNextChange \/ NextChange \/ ConnectionLost

SpecDamage == Init /\ [][NextDamage]_vars

\* ================================================================ claims
Creating == op \in {"new", "single_capture"}

Created == last.op \in {"new", "single_capture"}

\* C1: ScreenInfo::new and single_capture get past the version check, and so
\* return Ok, only if the server reported major > 1, or major = 1 and
\* minor >= 2; for every other reported version they return the
\* "MIT-SHM version 1.2 or higher is required" error, and for no supported
\* version (1.2, 2.0, ...) do they return it.
C1_VersionGate ==
    LET supported(ma, mi) == ma > 1 \/ (ma = 1 /\ mi >= 2)
    IN  /\ (Creating /\ pc \notin {"connect", "query_version", "check_version"})
              => supported(loc.major, loc.minor)
        /\ (Created /\ last.res = "ok") => supported(last.major, last.minor)
        /\ (Created /\ last.major >= 0 /\ ~supported(last.major, last.minor))
              => last.res = "err_version"
        /\ (Created /\ last.res = "err_version")
              => (last.major >= 0 /\ ~supported(last.major, last.minor))

\* A server reporting 1.1 has been refused.
C1_Witness ==
    /\ last.op = "new" /\ last.res = "err_version"
    /\ last.major = 1 /\ last.minor = 1

\* C2: whenever a buffer exists (the mapping of a call in progress, of a
\* ScreenInfo, or the one single_capture returned), its length is
\* width * height * 4 for the geometry the server reported, which is the
\* geometry the ScreenInfo stores; so no capture or cleanup changes it.
C2_BufferLength ==
    /\ \A s \in Slots : mmap[s].held => Len(mmap[s].bytes) = scrW * scrH * 4
    /\ shot.held => Len(shot.bytes) = scrW * scrH * 4
    /\ si.live => (mmap["S"].held /\ si.width = scrW /\ si.height = scrH)

\* A ScreenInfo of a 2 x 2 screen after a capture and a cleanup that returned Ok.
C2_Witness ==
    /\ si.live /\ si.cap.has /\ si.cleaned
    /\ si.width = 2 /\ si.height = 2
    /\ Len(mmap["S"].bytes) = 16

\* The positions of the requests named n in a sequence of requests.
Places(reqs, n) == {i \in DOMAIN reqs : reqs[i].name = n}

\* C3 (as claimed): once cleanup has returned Ok, every capture on that
\* ScreenInfo is refused by the library itself: it does not return Ok, and
\* no GetImage request naming the detached segment follows the Detach on
\* the connection.
C3_CaptureAfterCleanup ==
    /\ (last.op = "capture" /\ si.cleaned) => last.res # "ok"
    /\ si.cleaned =>
         \A i \in Places(log["S"], "Detach"), j \in Places(log["S"], "GetImage") :
             log["S"][j].shmseg = log["S"][i].shmseg => j < i

\* C4 (as claimed): capture returns Ok with the whole rectangle written, or an
\* error with the buffer as the call found it and nothing written by the server.
C4_NoPartialSuccess ==
    last.op = "capture" =>
        \/ /\ last.res = "ok"
           /\ mmap["S"].bytes = ImageBytes(last.frame, scrW, 0, 0, scrW, scrH)
        \/ /\ last.res # "ok"
           /\ ~last.served
           /\ mmap["S"].bytes = last.before

\* The segment the live ScreenInfo attached is registered.
SessionRegistered == Registered(segs, "S", si.shmseg)

C6_NoSegmentLeftBehind ==
    pc = "idle" =>
        /\ \A e \in segs : si.live /\ e.conn = "S" /\ e.id = si.shmseg
        /\ ~si.live => segs = {}

\* single_capture failed to flush its detach after the segment was registered
\* and the image written; the detach never reached the server.
C6_Witness ==
    /\ pc = "idle"
    /\ last.op = "single_capture" /\ last.res = "err_flush"
    /\ last.attached /\ last.served
    /\ Places(last.log, "Detach") = {}
    /\ segs = {}

\* The GetImage requests among reqs fit a buffer of w x h pixels and n bytes.
Fits(reqs, w, h, n) ==
    \A i \in Places(reqs, "GetImage") :
        /\ reqs[i].width <= w
        /\ reqs[i].height <= h
        /\ reqs[i].offset + reqs[i].width * reqs[i].height * 4 <= n

C8_AttachRejected ==
    /\ si.live => si.attached
    /\ (last.op = "single_capture" /\ last.res = "ok") => last.attached

\* C9: when the server reported an unsupported version, which is when the
\* version error is returned, the connection carried the version query and
\* nothing else: no file, no mapping, no segment identifier, no attach, image
\* or detach request, and no ScreenInfo for the caller.  The query is the
\* first request of a connection and is never sent again.
C9_NothingAfterRefusal ==
    LET supported(ma, mi) == ma > 1 \/ (ma = 1 /\ mi >= 2)
    IN  /\ (Creating /\ loc.major >= 0 /\ ~supported(loc.major, loc.minor)) =>
              /\ pc = "check_version"
              /\ ~loc.file /\ loc.shmseg = 0 /\ ~mmap[Cur].held
              /\ log[Cur] = <<QueryVersionReq>> /\ out[Cur] = <<>>
        /\ (Created /\ (last.res = "err_version"
                        \/ (last.major >= 0 /\ ~supported(last.major, last.minor)))) =>
              /\ last.res = "err_version"
              /\ last.log = <<QueryVersionReq>>
              /\ ~si.live /\ ~open["S"] /\ ~open["T"]
              /\ ~mmap["S"].held /\ ~mmap["T"].held
              /\ segs = {}
        /\ \A s \in Slots : Places(log[s], "QueryVersion") \subseteq {1}
        /\ Places(last.log, "QueryVersion") \subseteq {1}

\* single_capture has been refused by a server reporting 0.3.
C9_Witness ==
    /\ last.op = "single_capture" /\ last.res = "err_version"
    /\ last.major = 0 /\ last.minor = 3
    /\ last.log = <<QueryVersionReq>>

CurSent ==
    SubSeq(log[Cur] \o out[Cur], loc.n0 + 1, Len(log[Cur]) + Len(out[Cur]))

\* C12: no GetImage request is ever left written and unanswered, so none is
\* pending when a call begins and at most one is outstanding; a call writes
\* at most one GetImage request, whether it fails or not, and a capture that
\* returns Ok wrote exactly one and the server had answered it.
C12_OneCaptureAtATime ==
    /\ \A s \in Slots : Places(out[s], "GetImage") = {}
    /\ op # "none" => Cardinality(Places(CurSent, "GetImage")) <= 1
    /\ last.op # "none" => Cardinality(Places(last.sent, "GetImage")) <= 1
    /\ (last.op = "capture" /\ last.res = "ok")
          => (Cardinality(Places(last.sent, "GetImage")) = 1 /\ last.served)
    /\ (last.op = "capture" /\ last.res # "ok")
          => Len(last.sent) <= 1

\* The second capture of a ScreenInfo returned Ok after one request of its own.
C12_Witness ==
    /\ last.op = "capture" /\ last.res = "ok" /\ last.served
    /\ Cardinality(Places(last.sent, "GetImage")) = 1
    /\ Cardinality(Places(log["S"], "GetImage")) = 2

\* C13 (as claimed): a cleanup called after a cleanup of the same ScreenInfo
\* has returned Ok writes no request at all, so no second Detach for the
\* segment that is already unregistered.
C13_SecondCleanupIdle ==
    /\ (op = "cleanup" /\ loc.cleaned0) => CurSent = <<>>
    /\ (last.op = "cleanup" /\ last.cleaned0) => last.sent = <<>>

\* ------------------------- single_capture beside new; capture; cleanup
\* The caller runs single_capture once and then the session sequence
\* ScreenInfo::new, capture, cleanup (each `?`: the sequence ends with the
\* first call that fails), and keeps what it saw of both runs.
Expect == <<"single_capture", "new", "capture", "cleanup">>

\* Results the server decides: the rest are failures of the transport or the OS.
ServerSaid == {"ok", "err_version", "err_protocol"}

\* The requests with the connection's own segment identifier left out.
Norm(reqs) ==
    [i \in DOMAIN reqs |->
        IF reqs[i].name = "QueryVersion" THEN reqs[i] ELSE [reqs[i] EXCEPT !.shmseg = 0]]

EqCallSingleCapture == eq.calls = 0 /\ last.op = "none" /\ CallSingleCapture

EqCallNew == eq.calls = 1 /\ last.op = "single_capture" /\ CallNew

EqCallCapture == eq.calls = 2 /\ last.op = "new" /\ last.res = "ok" /\ CallCapture

EqCallCleanup == eq.calls = 3 /\ last.op = "capture" /\ last.res = "ok" /\ CallCleanup

\* One server answers both runs: it reports to the session sequence the
\* version it reported to single_capture.
EqQueryVersion ==
    /\ QueryVersion
    /\ (pc' = "check_version" /\ eq.t.major # -1)
          => (loc'.major = eq.t.major /\ loc'.minor = eq.t.minor)

\* The caller looks at the call that has just returned.
Observe ==
    /\ pc = "idle" /\ eq.calls < 4 /\ last.op = Expect[eq.calls + 1]
    /\ LET ok == last.res = "ok"
           env == last.res \notin ServerSaid
       IN  eq' =
             IF last.op = "single_capture"
               THEN [eq EXCEPT !.calls = 1,
                               !.t = [done |-> TRUE, ok |-> ok, env |-> env,
                                      major |-> last.major, minor |-> last.minor,
                                      attached |-> last.attached, frame |-> last.frame,
                                      reqs |-> Norm(last.log), bytes |-> shot.bytes,
                                      registered |-> \E e \in segs : e.conn = "T"]]
             ELSE IF last.op = "new"
               THEN [eq EXCEPT !.calls = 2,
                               !.s = [@ EXCEPT !.done = ~ok, !.env = env,
                                               !.major = last.major, !.minor = last.minor,
                                               !.attached = last.attached,
                                               !.reqs = Norm(IF ok THEN log["S"] ELSE last.log)]]
             ELSE IF last.op = "capture"
               THEN [eq EXCEPT !.calls = 3,
                               !.s = [@ EXCEPT !.done = ~ok, !.env = env,
                                               !.frame = last.frame,
                                               !.reqs = Norm(log["S"])]]
             ELSE [eq EXCEPT !.calls = 4,
                             !.s = [@ EXCEPT !.done = TRUE, !.ok = ok, !.env = env,
                                             !.reqs = Norm(log["S"]),
                                             !.bytes = mmap["S"].bytes,
                                             !.registered = Registered(segs, "S", si.shmseg)]]
    /\ UNCHANGED <<dmg, scrW, scrH, screen, segs, open, out, log, mmap, si, shot, op, pc, loc, last>>

NextEquiv ==
    \/ EqCallSingleCapture \/ EqCallNew \/ EqCallCapture \/ EqCallCleanup
    \/ Observe \/ ScreenChange
    \/ Connect \/ EqQueryVersion \/ CheckVersion \/ Tempfile \/ SetLen \/ Mmap
    \/ GenerateId \/ AttachFd \/ Flush \/ GetImage \/ Detach

SpecEquiv == Init /\ [][NextEquiv]_vars

\* ---------------------------------------------------------------- C14
Contained(r, b) ==
    /\ b.x <= r.x /\ r.x + r.w <= b.x + b.w
    /\ b.y <= r.y /\ r.y + r.h <= b.y + b.h

DamageQueued == {i \in DOMAIN dmg.queue : dmg.queue[i].kind = "damage"}

\* C14: what next_change returns is the rectangle of a damage notification,
\* never an event of another kind, and it lies within the bounds of the
\* update that caused it; the returned area is acknowledged: until the screen
\* is updated again none of it is in the server's accumulated damage; and no
\* update is reported twice: returns plus notifications still queued never
\* exceed the updates, so once every update has been returned no
\* notification is left and a further next_change stays blocked.
C14_DamageReportedOnce ==
    /\ dmg.ret.has => (dmg.ret.kind = "damage" /\ Contained(dmg.ret.rect, dmg.ret.src))
    /\ (dmg.ret.has /\ dmg.state = "Active" /\ ~dmg.dirty)
          => Cells(dmg.ret.rect) \cap dmg.region = {}
    /\ dmg.nRet + Cardinality(DamageQueued) <= dmg.nUpd
    /\ dmg.nRet = dmg.nUpd => DamageQueued = {}
    /\ (dmg.calling /\ DamageQueued = {} /\ dmg.queue = <<>>) => ~ENABLED NextChange

\* One update, an event of another kind skipped, the rectangle returned, and
\* the second next_change blocked on an empty queue.
C14_Witness ==
    /\ dmg.state = "Active" /\ dmg.calling /\ dmg.queue = <<>>
    /\ dmg.nUpd = 1 /\ dmg.nRet = 1 /\ dmg.nOther >= 1
    /\ dmg.ret.has /\ dmg.ret.rect = dmg.ret.src /\ dmg.region = {}

\* ---------------------------------------------------------------- C15
\* What connection s has carried: received by the server, then written and
\* not yet flushed.
Written(s) == log[s] \o out[s]

\* version query -> attach -> image-fetch* -> detach
LifecycleOrder(reqs) ==
    \A i \in DOMAIN reqs :
      /\ reqs[i].name = "QueryVersion" => i = 1
      /\ reqs[i].name = "AttachFd" => (i = 2 /\ reqs[1].name = "QueryVersion")
      /\ reqs[i].name = "GetImage"
            => /\ \E j \in 1..(i - 1) :
                     reqs[j].name = "AttachFd" /\ reqs[j].shmseg = reqs[i].shmseg
               /\ \A j \in 1..(i - 1) : reqs[j].name # "Detach"
      /\ reqs[i].name = "Detach"
            => /\ \E j \in 1..(i - 1) :
                     reqs[j].name = "AttachFd" /\ reqs[j].shmseg = reqs[i].shmseg
               /\ i = Len(reqs)

\* C15 (as claimed): on every connection the requests come in the order
\* version query, attach, image-fetches, detach, each image-fetch and the
\* detach naming the segment attached before; the attach is written only
\* after a supported version was reported and with the file sized to
\* width * height * 4 and mapped; single_capture writes the detach only after
\* the image-fetch was answered.
C15_LifecycleOrder ==
    /\ \A s \in Slots : LifecycleOrder(Written(s))
    /\ LifecycleOrder(last.log)
    /\ (Creating /\ Places(Written(Cur), "AttachFd") # {})
          => /\ loc.major > 1 \/ (loc.major = 1 /\ loc.minor >= 2)
             /\ Written(Cur)[2].size = scrW * scrH * 4
             /\ mmap[Cur].held /\ Len(mmap[Cur].bytes) = scrW * scrH * 4
    /\ (op = "single_capture" /\ Places(Written("T"), "Detach") # {}) => loc.served

\* ---------------------------------------------------------------- C16
\* What the environment did in a run: the version and the answer to the
\* attach the server gave, the frame it served, and whether (and after how
\* many requests received) the transport or the OS failed.
Behaviour(r) ==
    <<r.env, r.major, r.minor, r.attached, r.frame, IF r.env THEN Len(r.reqs) ELSE 0>>

\* C16: when single_capture and the sequence new; capture; cleanup met the
\* same behaviour of the environment, both succeed or both fail and the
\* server received the same requests from both; when they succeed the
\* requests are version query, attach of width * height * 4 bytes,
\* image-fetch of (0, 0, width, height) with the full plane mask, packed
\* format and offset 0 into the attached segment, detach, both leave a
\* buffer of the same length and contents, and no segment is registered.
C16_SameAsSession ==
    (eq.t.done /\ eq.s.done /\ Behaviour(eq.t) = Behaviour(eq.s))
      => /\ eq.t.ok = eq.s.ok
         /\ eq.t.reqs = eq.s.reqs
         /\ eq.t.ok
              => /\ eq.t.reqs =
                      << [name |-> "QueryVersion"],
                         [name |-> "AttachFd", shmseg |-> 0, size |-> scrW * scrH * 4,
                          read_only |-> FALSE],
                         [name |-> "GetImage", x |-> 0, y |-> 0, width |-> scrW,
                          height |-> scrH, plane_mask |-> "all", format |-> "Z_PIXMAP",
                          shmseg |-> 0, offset |-> 0],
                         [name |-> "Detach", shmseg |-> 0] >>
                 /\ Len(eq.t.bytes) = Len(eq.s.bytes)
                 /\ eq.t.bytes = eq.s.bytes
                 /\ ~eq.t.registered /\ ~eq.s.registered

\* Both runs succeeded on a 2 x 2 screen showing colour 1.
C16_Witness ==
    /\ eq.t.done /\ eq.s.done /\ Behaviour(eq.t) = Behaviour(eq.s)
    /\ eq.t.ok /\ eq.s.ok
    /\ scrW = 2 /\ scrH = 2 /\ eq.s.frame = [i \in 1..4 |-> 1]
    /\ eq.s.bytes = eq.t.bytes /\ Len(eq.s.bytes) = 16

====
